---------------------------- MODULE Spec2Model ----------------------------
(***************************************************************************)
(* Model of chargekit/paddle, src/api/index.ts: the query serializer       *)
(* prepareQuery and the request dispatcher paddleFetch.                    *)
(*                                                                         *)
(* JavaScript strings are sequences of one-character strings, so that the  *)
(* regular expression, the joins and the URL encoding are computed rather  *)
(* than assumed.  JavaScript values are records tagged by t.  Records are  *)
(* written with their fields in alphabetical order.                        *)
(***************************************************************************)
EXTENDS Integers, Sequences, FiniteSets, TLC

VARIABLES query, qpc, appended, qresult, clients, calls, wire

vars == <<query, qpc, appended, qresult, clients, calls, wire>>

qvars == <<query, qpc, appended, qresult>>

fvars == <<clients, calls, wire>>

(***************************************************************************)
(* Bounds of the model.                                                    *)
(***************************************************************************)
MaxEntries == 2

MaxClients == 2

MaxCalls == 2

(***************************************************************************)
(* JavaScript values.                                                      *)
(***************************************************************************)
Undefined == [t |-> "undefined"]

Null == [t |-> "null"]

Str(s) == [s |-> s, t |-> "str"]

Num(n) == [n |-> n, t |-> "num"]

Bool(b) == [b |-> b, t |-> "bool"]

\* an array: the sequence of its elements
Arr(a) == [a |-> a, t |-> "arr"]

\* a plain object: the sequence of its (k, v) properties in insertion order
Obj(o) == [o |-> o, t |-> "obj"]

Prop(k, v) == [k |-> k, v |-> v]

(***************************************************************************)
(* String helpers.                                                         *)
(***************************************************************************)
Digits == <<"0", "1", "2", "3", "4", "5", "6", "7", "8", "9">>

IsDigit(c) == \E i \in 1..10 : Digits[i] = c

DigitVal(c) == (CHOOSE i \in 1..10 : Digits[i] = c) - 1

RECURSIVE NatToString(_)
NatToString(n) ==
    IF n < 10 THEN <<Digits[n + 1]>>
    ELSE NatToString(n \div 10) \o <<Digits[(n % 10) + 1]>>

\* Number.prototype.toString for the integers of the model
NumberToString(n) == IF n < 0 THEN <<"-">> \o NatToString(-n) ELSE NatToString(n)

RECURSIVE StringToNat(_)
StringToNat(s) ==
    IF s = <<>> THEN 0
    ELSE 10 * StringToNat(SubSeq(s, 1, Len(s) - 1)) + DigitVal(s[Len(s)])

BooleanToString(b) ==
    IF b THEN <<"t", "r", "u", "e">> ELSE <<"f", "a", "l", "s", "e">>

ObjectToString == <<"[", "o", "b", "j", "e", "c", "t", " ", "O", "b", "j", "e", "c", "t", "]">>

StartsWith(s, p) == Len(s) >= Len(p) /\ SubSeq(s, 1, Len(p)) = p

\* Array.prototype.join over strings
RECURSIVE Join(_, _)
Join(ss, sep) ==
    IF ss = <<>> THEN <<>>
    ELSE IF Len(ss) = 1 THEN ss[1]
    ELSE ss[1] \o sep \o Join(Tail(ss), sep)

(***************************************************************************)
(* Object.entries: own enumerable string-keyed properties in the order of  *)
(* OrdinaryOwnPropertyKeys, i.e. the array-index keys in ascending numeric *)
(* order first, then the other keys in insertion order.                    *)
(***************************************************************************)
\* 2^32 - 2, the largest array index, as a digit string
MaxArrayIndex == <<"4", "2", "9", "4", "9", "6", "7", "2", "9", "4">>

\* a <= b for digit strings of the same length
RECURSIVE DigitsLeq(_, _)
DigitsLeq(a, b) ==
    IF a = <<>> THEN TRUE
    ELSE IF DigitVal(a[1]) # DigitVal(b[1]) THEN DigitVal(a[1]) < DigitVal(b[1])
    ELSE DigitsLeq(Tail(a), Tail(b))

\* a canonical numeric string: the decimal form of an integer in 0 .. 2^32 - 2
IsArrayIndex(k) ==
    /\ k # <<>>
    /\ \A i \in 1..Len(k) : IsDigit(k[i])
    /\ (Len(k) > 1 => k[1] # "0")
    /\ \/ Len(k) < Len(MaxArrayIndex)
       \/ Len(k) = Len(MaxArrayIndex) /\ DigitsLeq(k, MaxArrayIndex)

RECURSIVE IndexProps(_)
IndexProps(o) ==
    IF o = <<>> THEN <<>>
    ELSE (IF IsArrayIndex(o[1].k) THEN <<o[1]>> ELSE <<>>) \o IndexProps(Tail(o))

RECURSIVE NamedProps(_)
NamedProps(o) ==
    IF o = <<>> THEN <<>>
    ELSE (IF IsArrayIndex(o[1].k) THEN <<>> ELSE <<o[1]>>) \o NamedProps(Tail(o))

RemoveAt(s, i) == SubSeq(s, 1, i - 1) \o SubSeq(s, i + 1, Len(s))

RECURSIVE SortByIndex(_)
SortByIndex(o) ==
    IF o = <<>> THEN <<>>
    ELSE LET m == CHOOSE i \in 1..Len(o) :
                    \A j \in 1..Len(o) : StringToNat(o[i].k) <= StringToNat(o[j].k)
         IN  <<o[m]>> \o SortByIndex(RemoveAt(o, m))

\* a variant that enumerates in plain insertion order
ObjectEntries_insertion(o) == o

ObjectEntries(o) == SortByIndex(IndexProps(o)) \o NamedProps(o)

(***************************************************************************)
(* ToBoolean and ToString of the values of the model.                      *)
(***************************************************************************)
Truthy(v) ==
    CASE v.t = "undefined" -> FALSE
      [] v.t = "null" -> FALSE
      [] v.t = "bool" -> v.b
      [] v.t = "num" -> v.n # 0
      [] v.t = "str" -> v.s # <<>>
      [] OTHER -> TRUE

\* a variant that keeps the undefined elements
FilterDefined_keepAll(a) == a

\* value.filter((item) => item !== undefined)
RECURSIVE FilterDefined(_)
FilterDefined(a) ==
    IF a = <<>> THEN <<>>
    ELSE (IF a[1].t # "undefined" THEN <<a[1]>> ELSE <<>>) \o FilterDefined(Tail(a))

\* Array.prototype.join(","): null and undefined elements give the empty
\* string, every other element its ToString
RECURSIVE ArrayJoin(_)
ElementToString(v) ==
    CASE v.t = "undefined" -> <<>>
      [] v.t = "null" -> <<>>
      [] v.t = "str" -> v.s
      [] v.t = "num" -> NumberToString(v.n)
      [] v.t = "bool" -> BooleanToString(v.b)
      [] v.t = "arr" -> ArrayJoin(v.a)
      [] OTHER -> ObjectToString

ArrayJoin(a) == Join([i \in 1..Len(a) |-> ElementToString(a[i])], <<",">>)

\* value.toString() where value is neither undefined nor an array; on null
\* the property access throws a TypeError
Throws(v) == v.t = "null" \/ v.t = "undefined"

ValueToString(v) ==
    CASE v.t = "str" -> v.s
      [] v.t = "num" -> NumberToString(v.n)
      [] v.t = "bool" -> BooleanToString(v.b)
      [] v.t = "arr" -> ArrayJoin(v.a)
      [] OTHER -> ObjectToString

(***************************************************************************)
(* operatorRegExp: an anchored bracketed operator GT, GTE, LT or LTE       *)
(* (group 1) followed by any run of characters "." matches (group 2).     *)
(***************************************************************************)
Operators ==
    << <<"[", "G", "T", "]">>, <<"[", "G", "T", "E", "]">>,
       <<"[", "L", "T", "]">>, <<"[", "L", "T", "E", "]">> >>

\* the characters "." does not match
LineTerminators == {"\n", "\r"}

\* group 2, dot-star: the longest prefix without a line terminator
RECURSIVE DotStar(_)
DotStar(s) ==
    IF s = <<>> \/ s[1] \in LineTerminators THEN <<>>
    ELSE <<s[1]>> \o DotStar(Tail(s))

NoMatch == [matched |-> FALSE, op |-> <<>>, val |-> <<>>]

\* value.match(operatorRegExp) || []: groups 1 and 2 of the match
operatorRegExp(s) ==
    IF \E i \in 1..Len(Operators) : StartsWith(s, Operators[i])
    THEN LET i == CHOOSE n \in 1..Len(Operators) : StartsWith(s, Operators[n])
             op == Operators[i]
         IN  [matched |-> TRUE, op |-> op,
              val |-> DotStar(SubSeq(s, Len(op) + 1, Len(s)))]
    ELSE NoMatch

(***************************************************************************)
(* The body of the forEach callback of prepareQuery for one entry: the     *)
(* parameters it appends to q (none or one) and whether it throws.         *)
(***************************************************************************)
Param(name, value) == [name |-> name, value |-> value]

Appends(ps) == [params |-> ps, threw |-> FALSE]

Thrown == [params |-> <<>>, threw |-> TRUE]

IncludeKey == <<"i", "n", "c", "l", "u", "d", "e">>

\* a variant that selects every key, truthy or not
TruthyKeys_all(es) == [i \in 1..Len(es) |-> es[i].k]

\* Object.entries(value).filter(([_, val]) => val).map(([key, val]) => key)
RECURSIVE TruthyKeys(_)
TruthyKeys(es) ==
    IF es = <<>> THEN <<>>
    ELSE (IF Truthy(es[1].v) THEN <<es[1].k>> ELSE <<>>) \o TruthyKeys(Tail(es))

\* if (op && val): both groups are non-empty strings
OperatorApplies(m) == m.matched /\ m.op # <<>> /\ m.val # <<>>

\* a variant that does not skip undefined values
IsSkipped_never(value) == FALSE

\* if (value === undefined) return;
IsSkipped(value) == value.t = "undefined"

ForEachEntry(key, value) ==
    IF IsSkipped(value) THEN Appends(<<>>)
    ELSE IF value.t = "arr"
    THEN Appends(<<Param(key, ArrayJoin(FilterDefined(value.a)))>>)
    ELSE IF key = IncludeKey /\ Truthy(value) /\ value.t = "obj"
    THEN Appends(<<Param(key, Join(TruthyKeys(ObjectEntries(value.o)), <<",">>))>>)
    ELSE IF value.t = "str" /\ OperatorApplies(operatorRegExp(value.s))
    THEN LET m == operatorRegExp(value.s)
         IN  Appends(<<Param(key \o m.op, m.val)>>)
    ELSE IF Throws(value) THEN Thrown
    ELSE Appends(<<Param(key, ValueToString(value))>>)

(***************************************************************************)
(* URLSearchParams.prototype.toString: the application/x-www-form-         *)
(* urlencoded serializer.  Alphanumerics and * - . _ are kept, a space     *)
(* becomes +, every other character is percent-encoded.                    *)
(***************************************************************************)
Unreserved ==
    {"a", "b", "c", "d", "e", "f", "g", "h", "i", "j", "k", "l", "m", "n", "o",
     "p", "q", "r", "s", "t", "u", "v", "w", "x", "y", "z",
     "A", "B", "C", "D", "E", "F", "G", "H", "I", "J", "K", "L", "M", "N", "O",
     "P", "Q", "R", "S", "T", "U", "V", "W", "X", "Y", "Z",
     "0", "1", "2", "3", "4", "5", "6", "7", "8", "9", "*", "-", ".", "_"}

\* the other ASCII characters of the model with their hexadecimal code
PercentCodes ==
    { <<"[", "5", "B">>, <<"]", "5", "D">>, <<",", "2", "C">>, <<"\n", "0", "A">>,
      <<"\r", "0", "D">>, <<"=", "3", "D">>, <<"&", "2", "6">>, <<"?", "3", "F">>,
      <<"/", "2", "F">>, <<":", "3", "A">>, <<"+", "2", "B">>, <<"%", "2", "5">> }

EncodeChar(c) ==
    IF c \in Unreserved THEN <<c>>
    ELSE IF c = " " THEN <<"+">>
    ELSE LET e == CHOOSE x \in PercentCodes : x[1] = c
         IN  <<"%", e[2], e[3]>>

RECURSIVE EncodeString(_)
EncodeString(s) ==
    IF s = <<>> THEN <<>> ELSE EncodeChar(s[1]) \o EncodeString(Tail(s))

URLSearchParamsToString(ps) ==
    Join([i \in 1..Len(ps) |->
            EncodeString(ps[i].name) \o <<"=">> \o EncodeString(ps[i].value)],
         <<"&">>)

(***************************************************************************)
(* prepareQuery(query): forEach over Object.entries(query) appending to q, *)
(* then the "?"-prefixed serialization of q.  log records, for every entry *)
(* the callback completed for, the parameters it appended.                 *)
(***************************************************************************)
RECURSIVE ForEach(_, _)
ForEach(es, acc) ==
    IF es = <<>> THEN acc
    ELSE LET r == ForEachEntry(es[1].k, es[1].v)
         IN  IF r.threw
             THEN [acc EXCEPT !.threw = TRUE]
             ELSE ForEach(Tail(es),
                          [log |-> Append(acc.log,
                                          [k |-> es[1].k, params |-> r.params,
                                           v |-> es[1].v]),
                           params |-> acc.params \o r.params,
                           threw |-> FALSE])

EmptyParams == [log |-> <<>>, params |-> <<>>, threw |-> FALSE]

\* a variant that always prefixes the question mark
QueryString_always(qStr) == <<"?">> \o qStr

\* qStr ? `?${qStr}` : ""
QueryString(qStr) == IF qStr # <<>> THEN <<"?">> \o qStr ELSE <<>>

\* a variant of filter that removes the elements from the array it is
\* called on
ReceiverAfterFilter_inPlace(a) == FilterDefined(a)

\* value.filter(...) returns a new array: the array it is called on keeps
\* its elements
ReceiverAfterFilter(a) == a

\* a value of the query object after the callback ran on its entry: join,
\* map, match and toString change nothing, and the include object is only
\* read through Object.entries
ValueAfter(v) == IF v.t = "arr" THEN Arr(ReceiverAfterFilter(v.a)) ELSE v

\* the argument after the call, given the entries the callback completed for
InputAfter(q, log) ==
    IF q.t # "obj" THEN q
    ELSE Obj([i \in 1..Len(q.o) |->
                IF \E n \in 1..Len(log) : log[n].k = q.o[i].k
                THEN Prop(q.o[i].k, ValueAfter(q.o[i].v))
                ELSE q.o[i]])

prepareQuery(q) ==
    LET acc == IF q.t = "obj" THEN ForEach(ObjectEntries(q.o), EmptyParams)
               ELSE EmptyParams
    IN  [input |-> InputAfter(q, acc.log),
         log |-> acc.log, params |-> acc.params,
         str |-> IF acc.threw THEN <<>>
                 ELSE QueryString(URLSearchParamsToString(acc.params)),
         threw |-> acc.threw]

(***************************************************************************)
(* The query objects the serializer is applied to.                         *)
(***************************************************************************)
S_a == <<"a">>

S_b == <<"b">>

S_c == <<"c">>

S_GT5 == <<"[", "G", "T", "]", "5">>

S_GTE10 == <<"[", "G", "T", "E", "]", "1", "0">>

S_LTab == <<"[", "L", "T", "]", "a", " ", "b">>

S_LTE == <<"[", "L", "T", "E", "]">>

S_GTnl == <<"[", "G", "T", "]", "1", "\n", "2">>

S_EQ1 == <<"[", "E", "Q", "]", "1">>

S_xGT1 == <<"x", "[", "G", "T", "]", "1">>

QueryKeys == {S_a, IncludeKey, <<"2">>, <<"1", "0">>}

IncludeObjects ==
    { Obj(<<Prop(S_a, Bool(TRUE)), Prop(S_b, Bool(FALSE)), Prop(S_c, Bool(TRUE))>>),
      Obj(<<Prop(S_b, Num(1)), Prop(<<"1">>, Str(S_a)), Prop(S_a, Null)>>),
      Obj(<<Prop(S_a, Bool(FALSE))>>),
      Obj(<<>>) }

ArrayValues ==
    { Arr(<<>>),
      Arr(<<Undefined>>),
      Arr(<<Str(S_a), Undefined, Str(S_b)>>),
      Arr(<<Str(S_GTE10), Num(7)>>) }

ScalarValues ==
    { Undefined, Null,
      Str(<<>>), Str(S_a), Str(S_GT5), Str(S_GTE10), Str(S_LTab), Str(S_LTE),
      Str(S_GTnl), Str(S_EQ1), Str(S_xGT1),
      Num(0), Num(42), Bool(TRUE), Bool(FALSE) }

QueryValues == ScalarValues \cup ArrayValues \cup IncludeObjects

DistinctKeys(o) == \A i, j \in 1..Len(o) : i # j => o[i].k # o[j].k

\* the property lists of at most MaxEntries properties, in insertion order
PropLists ==
    { o \in UNION { [1..n -> [k : QueryKeys, v : QueryValues]] : n \in 0..MaxEntries } :
        DistinctKeys(o) }

QueryInputs == {Undefined} \cup { Obj(o) : o \in PropLists }

(***************************************************************************)
(* The serializer as a state machine: a call of prepareQuery on query and, *)
(* after it returned, a second call on the same object.                    *)
(***************************************************************************)
InitQ ==
    /\ query \in QueryInputs
    /\ qpc = "ready"
    /\ appended = <<>>
    /\ qresult = <<>>
    /\ clients = <<>>
    /\ calls = <<>>
    /\ wire = <<>>

Serialize ==
    /\ qpc \in {"ready", "returned"}
    /\ LET r == prepareQuery(query)
       IN  /\ qpc' = IF r.threw THEN "threw"
                     ELSE IF qpc = "ready" THEN "returned" ELSE "again"
           /\ appended' = r.log
           /\ qresult' = r.str
           /\ query' = r.input
    /\ UNCHANGED <<clients, calls, wire>>

NextQ == Serialize

SpecQ == InitQ /\ [][NextQ]_vars

(***************************************************************************)
(* The request dispatcher.                                                 *)
(***************************************************************************)
apiURL ==
    <<"h", "t", "t", "p", "s", ":", "/", "/", "a", "p", "i", ".",
      "p", "a", "d", "d", "l", "e", ".", "c", "o", "m", "/">>

sandboxAPIURL ==
    <<"h", "t", "t", "p", "s", ":", "/", "/", "s", "a", "n", "d", "b", "o", "x", "-",
      "a", "p", "i", ".", "p", "a", "d", "d", "l", "e", ".", "c", "o", "m", "/">>

Bearer == <<"B", "e", "a", "r", "e", "r", " ">>

ApplicationJson ==
    <<"a", "p", "p", "l", "i", "c", "a", "t", "i", "o", "n", "/", "j", "s", "o", "n">>

Header(name, value) == [name |-> name, value |-> value]

\* JSON.stringify of the bodies of the model: flat objects whose values are
\* strings without characters to escape, numbers, booleans or null;
\* undefined-valued properties are left out
JSONValue(v) ==
    CASE v.t = "str" -> <<"\"">> \o v.s \o <<"\"">>
      [] v.t = "num" -> NumberToString(v.n)
      [] v.t = "bool" -> BooleanToString(v.b)
      [] OTHER -> <<"n", "u", "l", "l">>

RECURSIVE JSONMembers(_)
JSONMembers(es) ==
    IF es = <<>> THEN <<>>
    ELSE (IF es[1].v.t = "undefined" THEN <<>>
          ELSE << <<"\"">> \o es[1].k \o <<"\"", ":">> \o JSONValue(es[1].v) >>)
         \o JSONMembers(Tail(es))

JSONStringify(body) ==
    <<"{">> \o Join(JSONMembers(ObjectEntries(body.o)), <<",">>) \o <<"}">>

\* PaddleFetchProps: { method, path, query?, body? }
Props(method, path, q, body) ==
    [body |-> body, method |-> method, path |-> path, query |-> q]

\* a variant that takes the key of the first client handle
ClientKey_first(c) == clients[1].key

\* client.key
ClientKey(c) == clients[c].key

\* a variant that always picks the production host
BaseURL_production(c) == apiURL

\* client.sandbox ? sandboxAPIURL : apiURL
BaseURL(c) == IF Truthy(clients[c].sandbox) THEN sandboxAPIURL ELSE apiURL

\* a variant that sets the content type on every request
RequestHeaders_always(c, props) ==
    <<Header("Authorization", Bearer \o ClientKey(c)),
      Header("Content-Type", ApplicationJson)>>

\* a variant with one headers record shared by all calls: a Content-Type
\* set for an earlier request stays set
RequestHeaders_shared(c, props) ==
    <<Header("Authorization", Bearer \o ClientKey(c))>>
    \o (IF Truthy(props.body) \/ \E n \in 1..Len(wire) : Len(wire[n].headers) > 1
        THEN <<Header("Content-Type", ApplicationJson)>> ELSE <<>>)

\* the headers record: Authorization, and Content-Type if (props.body)
RequestHeaders(c, props) ==
    <<Header("Authorization", Bearer \o ClientKey(c))>>
    \o (IF Truthy(props.body) THEN <<Header("Content-Type", ApplicationJson)>> ELSE <<>>)

\* props.body ? JSON.stringify(props.body) : null
RequestBody(props) ==
    IF Truthy(props.body) THEN Str(JSONStringify(props.body)) ELSE Null

\* the outcomes of a call that are not a decoded response
NoResult == [call |-> 0, kind |-> "none", status |-> 0]

Failure(kind) == [call |-> 0, kind |-> kind, status |-> 0]

\* the JSON value the server sent in answer to the request of call i
Decoded(i, status) == [call |-> i, kind |-> "json", status |-> status]

\* the synchronous part of paddleFetch, up to and including the call of
\* fetch; a throw of prepareQuery rejects the promise of the async function
\* before fetch is reached.  transport and decode record what the promise
\* of fetch and the promise of response.json() did (idle: never created)
StartCall(c, props) ==
    LET i == Len(calls) + 1
        \* the descriptor as this call was given it, kept with the call
        given == Props(props.method, props.path, props.query, props.body)
        q == IF Truthy(props.query) THEN prepareQuery(props.query)
             ELSE [str |-> <<>>, threw |-> FALSE]
    IN  /\ Len(calls) < MaxCalls
        /\ c \in 1..Len(clients)
        /\ IF q.threw
           THEN /\ calls' = Append(calls, [client |-> c, decode |-> "idle",
                                           fetches |-> 0,
                                           pc |-> "rejected", props |-> given,
                                           result |-> Failure("TypeError"),
                                           status |-> 0, transport |-> "idle"])
                /\ wire' = wire
           ELSE /\ calls' = Append(calls, [client |-> c, decode |-> "idle",
                                           fetches |-> 1,
                                           pc |-> "fetching", props |-> given,
                                           result |-> NoResult, status |-> 0,
                                           transport |-> "pending"])
                /\ wire' = Append(wire,
                                  [body |-> RequestBody(props),
                                   call |-> i,
                                   headers |-> RequestHeaders(c, props),
                                   method |-> props.method,
                                   url |-> BaseURL(c) \o props.path \o q.str])
        /\ UNCHANGED <<clients, qvars>>

(***************************************************************************)
(* The inputs of the dispatcher.                                           *)
(***************************************************************************)
ClientKeys == { <<"k", "1">>, <<"k", "2">> }

SandboxFlags == { Bool(TRUE), Bool(FALSE), Undefined }

P_products == <<"p", "r", "o", "d", "u", "c", "t", "s">>

P_product1 == P_products \o <<"/", "p", "1">>

S_status == <<"s", "t", "a", "t", "u", "s">>

Q_list ==
    Obj(<<Prop(S_status, Arr(<<Str(S_a), Str(S_b)>>)),
          Prop(IncludeKey, Obj(<<Prop(S_c, Bool(TRUE))>>))>>)

Q_null == Obj(<<Prop(S_a, Null)>>)

ListQueries == { Undefined, Q_list, Q_null }

B_named == Obj(<<Prop(<<"n", "a", "m", "e">>, Str(S_a))>>)

Bodies == { Obj(<<>>), B_named }

\* requests made with paddleFetch directly
DirectProps ==
    { Props("DELETE", P_product1, Obj(<<>>), Undefined),
      Props("POST", P_products, Q_list, B_named) }

StatusCodes == {200, 404}

(***************************************************************************)
(* The operations.                                                         *)
(***************************************************************************)
Init ==
    /\ clients = <<>>
    /\ calls = <<>>
    /\ wire = <<>>
    /\ query = Undefined
    /\ qpc = "ready"
    /\ appended = <<>>
    /\ qresult = <<>>

\* client(key, sandbox): a new handle { key, sandbox }
client(key, sandbox) ==
    /\ Len(clients) < MaxClients
    /\ clients' = Append(clients, [key |-> key, sandbox |-> sandbox])
    /\ UNCHANGED <<calls, wire, qvars>>

paddleFetch(c, props) == StartCall(c, props)

listProducts(c, q) == StartCall(c, Props("GET", P_products, q, Undefined))

createProduct(c, body) == StartCall(c, Props("POST", P_products, Undefined, body))

\* the promise of fetch resolves with a response, whatever its status, and
\* paddleFetch goes on to response.json()
FetchResolves(i, status) ==
    /\ i \in 1..Len(calls)
    /\ calls[i].pc = "fetching"
    /\ calls' = [calls EXCEPT ![i].pc = "decoding", ![i].status = status,
                              ![i].transport = "resolved",
                              ![i].decode = "pending"]
    /\ UNCHANGED <<clients, wire, qvars>>

\* the promise of fetch rejects: the await throws and the call rejects
FetchRejects(i) ==
    /\ i \in 1..Len(calls)
    /\ calls[i].pc = "fetching"
    /\ calls' = [calls EXCEPT ![i].pc = "rejected",
                              ![i].transport = "rejected",
                              ![i].result = Failure("TransportError")]
    /\ UNCHANGED <<clients, wire, qvars>>

\* a variant that turns a status outside 200..299 into a rejection
Returned_okOnly(i, status) ==
    IF status \in 200..299
    THEN [pc |-> "resolved", result |-> Decoded(i, status)]
    ELSE [pc |-> "rejected", result |-> Failure("HttpError")]

\* return response.json(): the call resolves with what the decode step
\* resolved with, whatever the status of the response
Returned(i, status) == [pc |-> "resolved", result |-> Decoded(i, status)]

\* response.json() resolves with the decoded body
JsonResolves(i) ==
    /\ i \in 1..Len(calls)
    /\ calls[i].pc = "decoding"
    /\ calls' = [calls EXCEPT ![i].pc = Returned(i, calls[i].status).pc,
                              ![i].decode = "ok",
                              ![i].result = Returned(i, calls[i].status).result]
    /\ UNCHANGED <<clients, wire, qvars>>

\* response.json() rejects: the body is not JSON
JsonRejects(i) ==
    /\ i \in 1..Len(calls)
    /\ calls[i].pc = "decoding"
    /\ calls' = [calls EXCEPT ![i].pc = "rejected",
                              ![i].decode = "failed",
                              ![i].result = Failure("SyntaxError")]
    /\ UNCHANGED <<clients, wire, qvars>>

Next ==
    \/ \E key \in ClientKeys, sandbox \in SandboxFlags : client(key, sandbox)
    \/ \E c \in 1..MaxClients, props \in DirectProps : paddleFetch(c, props)
    \/ \E c \in 1..MaxClients, q \in ListQueries : listProducts(c, q)
    \/ \E c \in 1..MaxClients, body \in Bodies : createProduct(c, body)
    \/ \E i \in 1..MaxCalls, status \in StatusCodes : FetchResolves(i, status)
    \/ \E i \in 1..MaxCalls : FetchRejects(i)
    \/ \E i \in 1..MaxCalls : JsonResolves(i)
    \/ \E i \in 1..MaxCalls : JsonRejects(i)

Spec == Init /\ [][Next]_vars

(***************************************************************************)
(* Properties of the serializer, stated on the state after a call.         *)
(***************************************************************************)
QueryProps == IF query.t = "obj" THEN query.o ELSE <<>>

\* the parameters the call appended for the entry with key k
ParamsOf(k) ==
    LET i == CHOOSE n \in 1..Len(appended) : appended[n].k = k
    IN  appended[i].params

RECURSIVE Flatten(_)
Flatten(ss) == IF ss = <<>> THEN <<>> ELSE ss[1] \o Flatten(Tail(ss))

\* all parameters of the call, in the order they were appended
AllParams == Flatten([i \in 1..Len(appended) |-> appended[i].params])

\* comma-joined strings, built from the left
RECURSIVE CommaJoined(_)
CommaJoined(ss) ==
    IF ss = <<>> THEN <<>>
    ELSE IF Len(ss) = 1 THEN ss[1]
    ELSE CommaJoined(SubSeq(ss, 1, Len(ss) - 1)) \o <<",">> \o ss[Len(ss)]

OperatorSet == { Operators[i] : i \in 1..Len(Operators) }

IsOperatorValue(v) == v.t = "str" /\ \E op \in OperatorSet : StartsWith(v.s, op)

\* C1: every entry whose value is a string [OP]rest, OP one of GT, GTE, LT,
\* LTE and rest any string (the empty string included), yields exactly one
\* parameter, named key[OP] with value rest, and none named key.
C1_OperatorRewritten ==
    qpc = "returned" =>
        \A i \in 1..Len(QueryProps) :
            LET e == QueryProps[i]
            IN  IsOperatorValue(e.v) =>
                    \E op \in OperatorSet :
                        /\ StartsWith(e.v.s, op)
                        /\ ParamsOf(e.k) =
                             <<Param(e.k \o op, SubSeq(e.v.s, Len(op) + 1, Len(e.v.s)))>>

\* C2: every array-valued entry yields exactly one parameter, named by its
\* key, whose value is the comma-joined text of the elements that are not
\* undefined, in their order, each element taken literally.
C2_ArrayJoined ==
    qpc = "returned" =>
        \A i \in 1..Len(QueryProps) :
            LET e == QueryProps[i]
                defined == SelectSeq(e.v.a, LAMBDA x : x.t # "undefined")
                texts == [n \in 1..Len(defined) |-> ElementToString(defined[n])]
            IN  e.v.t = "arr" =>
                    /\ ParamsOf(e.k) = <<Param(e.k, CommaJoined(texts))>>
                    /\ \A n \in 1..Len(defined) :
                         defined[n].t = "str" => texts[n] = defined[n].s

C2_Witness ==
    /\ qpc = "returned"
    /\ \E i \in 1..Len(QueryProps) :
         /\ QueryProps[i].v = Arr(<<Str(S_a), Undefined, Str(S_b)>>)
         /\ ParamsOf(QueryProps[i].k) = <<Param(QueryProps[i].k, <<"a", ",", "b">>)>>
    /\ \E i \in 1..Len(QueryProps) :
         /\ QueryProps[i].v = Arr(<<Undefined>>)
         /\ ParamsOf(QueryProps[i].k) = <<Param(QueryProps[i].k, <<>>)>>

\* C3: an include entry holding a non-null, non-array object yields exactly
\* one parameter named include whose value is the comma-joined list of the
\* object's keys with a truthy value, in the object's own key order.
C3_IncludeKeys ==
    qpc = "returned" =>
        \A i \in 1..Len(QueryProps) :
            LET e == QueryProps[i]
                own == ObjectEntries(e.v.o)
                chosen == SelectSeq(own, LAMBDA x : Truthy(x.v))
            IN  (e.k = IncludeKey /\ e.v.t = "obj") =>
                    /\ ParamsOf(e.k) =
                         <<Param(IncludeKey,
                                 CommaJoined([n \in 1..Len(chosen) |-> chosen[n].k]))>>
                    /\ (e.v = Obj(<<Prop(S_a, Bool(TRUE)), Prop(S_b, Bool(FALSE)),
                                    Prop(S_c, Bool(TRUE))>>)
                          => ParamsOf(e.k)[1].value = <<"a", ",", "c">>)
                    /\ ((\A n \in 1..Len(own) : ~Truthy(own[n].v))
                          => ParamsOf(e.k)[1].value = <<>>)

C3_Witness ==
    /\ qpc = "returned"
    /\ \E i \in 1..Len(QueryProps) :
         /\ QueryProps[i].k = IncludeKey
         /\ QueryProps[i].v = Obj(<<Prop(S_a, Bool(TRUE)), Prop(S_b, Bool(FALSE)),
                                    Prop(S_c, Bool(TRUE))>>)
         /\ ParamsOf(IncludeKey) = <<Param(IncludeKey, <<"a", ",", "c">>)>>

\* the position at which key k was inserted into the query object
InsertedAt(k) == CHOOSE n \in 1..Len(QueryProps) : QueryProps[n].k = k

LogKeys == [i \in 1..Len(appended) |-> appended[i].k]

\* the returned string is the serialization of the parameters in log order
StringFollowsLog ==
    qresult = (IF AllParams = <<>> THEN <<>>
               ELSE <<"?">> \o URLSearchParamsToString(AllParams))

\* C4 as stated: the parameters appear in the order in which their keys were
\* inserted into the query object, whatever the key names.
C4_InsertionOrder ==
    qpc = "returned" =>
        /\ LogKeys = [i \in 1..Len(QueryProps) |-> QueryProps[i].k]
        /\ StringFollowsLog

\* C4 amended: the parameters appear in the order Object.entries gives the
\* keys: the array-index keys first, in ascending numeric order, then the other
\* keys in insertion order; the result is a function of that order.
C4_EntriesOrder ==
    qpc = "returned" =>
        /\ Len(appended) = Len(QueryProps)
        /\ \A n \in 1..Len(QueryProps) : \E i \in 1..Len(appended) : LogKeys[i] = QueryProps[n].k
        /\ \A i, j \in 1..Len(appended) :
             i < j =>
                 LET a == LogKeys[i]
                     b == LogKeys[j]
                 IN  \/ IsArrayIndex(a) /\ IsArrayIndex(b) /\ StringToNat(a) < StringToNat(b)
                     \/ IsArrayIndex(a) /\ ~IsArrayIndex(b)
                     \/ ~IsArrayIndex(a) /\ ~IsArrayIndex(b) /\ InsertedAt(a) < InsertedAt(b)
        /\ StringFollowsLog

\* an array-index key inserted after another key, both with a parameter
C4_Witness ==
    /\ qpc = "returned"
    /\ Len(QueryProps) = 2
    /\ ~IsArrayIndex(QueryProps[1].k)
    /\ IsArrayIndex(QueryProps[2].k)
    /\ Len(AllParams) = 2
    /\ AllParams[1].name = QueryProps[2].k

\* C5: the result is the empty string exactly when no parameter was appended
\* (query undefined, empty, or holding undefined values only); otherwise it
\* is "?" followed by the encoded parameters, and it is never the bare "?".
C5_EmptyOrPrefixed ==
    qpc = "returned" =>
        /\ (qresult = <<>>) <=> (AllParams = <<>>)
        /\ (AllParams = <<>>) <=>
             (\A i \in 1..Len(QueryProps) : QueryProps[i].v.t = "undefined")
        /\ AllParams # <<>> =>
             /\ qresult = <<"?">> \o URLSearchParamsToString(AllParams)
             /\ Len(qresult) >= 2
        /\ qresult # <<"?">>

\* an entry with an empty value still gives a non-empty result
C5_Witness ==
    /\ qpc = "returned"
    /\ QueryProps = <<Prop(S_a, Arr(<<>>))>>
    /\ qresult = <<"?", "a", "=">>

\* the query object without its undefined-valued entries
RECURSIVE WithoutUndefined(_)
WithoutUndefined(o) ==
    IF o = <<>> THEN <<>>
    ELSE (IF o[1].v.t = "undefined" THEN <<>> ELSE <<o[1]>>) \o WithoutUndefined(Tail(o))

\* C6: an undefined-valued entry contributes no parameter, and the others
\* contribute what they would if the undefined-valued entries were removed.
C6_UndefinedSkipped ==
    qpc # "ready" =>
        LET r == prepareQuery(Obj(WithoutUndefined(QueryProps)))
        IN  /\ \A i \in 1..Len(appended) :
                 appended[i].v.t = "undefined" => appended[i].params = <<>>
            /\ r.threw = (qpc = "threw")
            /\ r.params = AllParams
            /\ r.str = qresult
            /\ qpc = "returned" =>
                 \A i \in 1..Len(QueryProps) :
                     QueryProps[i].v.t # "undefined" =>
                         \E n \in 1..Len(r.log) :
                             /\ r.log[n].k = QueryProps[i].k
                             /\ r.log[n].params = ParamsOf(QueryProps[i].k)

C6_Witness ==
    /\ qpc = "returned"
    /\ Len(QueryProps) = 2
    /\ QueryProps[1].v.t = "undefined"
    /\ QueryProps[2].v = Str(S_GT5)
    /\ Len(AllParams) = 1

(***************************************************************************)
(* Properties of the dispatcher, stated on the requests handed to fetch.   *)
(***************************************************************************)
CallOf(w) == calls[w.call]

HandleOf(w) == clients[CallOf(w).client]

HeaderValues(w, name) ==
    { w.headers[n].value : n \in { m \in 1..Len(w.headers) : w.headers[m].name = name } }

HeaderCount(w, name) == Cardinality({ m \in 1..Len(w.headers) : w.headers[m].name = name })

\* C7: the URL handed to the transport is base + path + serialize(query):
\* the sandbox host when the client's sandbox flag is true, the production
\* host when it is false or unset, and the empty string for no query.
C7_RequestURL ==
    \A n \in 1..Len(wire) :
        LET w == wire[n]
            p == CallOf(w).props
            base == IF HandleOf(w).sandbox = Bool(TRUE) THEN sandboxAPIURL ELSE apiURL
            qs == IF p.query = Undefined THEN <<>> ELSE prepareQuery(p.query).str
        IN  w.url = base \o p.path \o qs

C7_Witness ==
    /\ Len(wire) = 2
    /\ HandleOf(wire[1]).sandbox = Bool(TRUE)
    /\ CallOf(wire[1]).props = Props("GET", P_products, Q_list, Undefined)
    /\ wire[1].url = sandboxAPIURL \o P_products \o
         <<"?", "s", "t", "a", "t", "u", "s", "=", "a", "%", "2", "C", "b", "&",
           "i", "n", "c", "l", "u", "d", "e", "=", "c">>
    /\ HandleOf(wire[2]).sandbox = Undefined
    /\ wire[2].url = apiURL \o P_products

\* C8: a request carries Content-Type: application/json exactly when it has
\* a non-null body, and it has one, the JSON text of the body object,
\* exactly when the request descriptor carries a body.
C8_BodyAndContentType ==
    \A n \in 1..Len(wire) :
        LET w == wire[n]
            p == CallOf(w).props
        IN  /\ (HeaderCount(w, "Content-Type") > 0) <=> (w.body # Null)
            /\ (w.body # Null) <=> (p.body # Undefined)
            /\ HeaderValues(w, "Content-Type") \subseteq {ApplicationJson}
            /\ p.body # Undefined => w.body = Str(JSONStringify(p.body))

C8_Witness ==
    /\ Len(wire) = 2
    /\ wire[1].method = "POST"
    /\ wire[1].body = Str(<<"{", "\"", "n", "a", "m", "e", "\"", ":", "\"", "a", "\"", "}">>)
    /\ HeaderValues(wire[1], "Content-Type") = {ApplicationJson}
    /\ wire[2].method = "GET"
    /\ wire[2].body = Null
    /\ HeaderCount(wire[2], "Content-Type") = 0

\* C9: every request carries one Authorization header, "Bearer " followed
\* by the key of the client handle passed to the call, never the key of
\* another handle.
C9_BearerKey ==
    \A n \in 1..Len(wire) :
        LET w == wire[n]
        IN  /\ HeaderCount(w, "Authorization") = 1
            /\ HeaderValues(w, "Authorization") = {Bearer \o HandleOf(w).key}
            /\ \A c \in 1..Len(clients) :
                 clients[c].key # HandleOf(w).key =>
                     Bearer \o clients[c].key \notin HeaderValues(w, "Authorization")

C9_Witness ==
    /\ Len(clients) = 2
    /\ clients[1].key # clients[2].key
    /\ \E n \in 1..Len(wire) :
         /\ CallOf(wire[n]).client = 2
         /\ HeaderValues(wire[n], "Authorization") = {<<"B", "e", "a", "r", "e", "r", " ", "k", "2">>}

\* the number of times the call i has invoked the transport
Invocations(i) == Cardinality({ n \in 1..Len(wire) : wire[n].call = i })

\* C10: every call invokes the transport exactly once over its whole life,
\* whatever its outcome.
C10_ExactlyOneRequest ==
    \A i \in 1..Len(calls) : Invocations(i) = 1

RequestAlone(h, p) ==
    [body |-> IF p.body = Undefined THEN Null ELSE Str(JSONStringify(p.body)),
     headers |-> <<Header("Authorization", Bearer \o h.key)>>
                 \o (IF p.body = Undefined THEN <<>>
                     ELSE <<Header("Content-Type", ApplicationJson)>>),
     method |-> p.method,
     url |-> (IF h.sandbox = Bool(TRUE) THEN sandboxAPIURL ELSE apiURL)
             \o p.path
             \o (IF p.query = Undefined THEN <<>> ELSE prepareQuery(p.query).str)]

\* every request and every result is the call's own
CallsIsolated ==
    /\ \A n \in 1..Len(wire) :
         LET w == wire[n]
             alone == RequestAlone(clients[calls[w.call].client], calls[w.call].props)
         IN  /\ w.call \in 1..Len(calls)
             /\ w.body = alone.body
             /\ w.headers = alone.headers
             /\ w.method = alone.method
             /\ w.url = alone.url
             /\ \A m \in 1..Len(wire) : m # n => wire[m].call # w.call
    /\ \A i \in 1..Len(calls) :
         /\ calls[i].client \in 1..Len(clients)
         /\ calls[i].pc = "resolved" =>
              /\ calls[i].result.call = i
              /\ calls[i].result.status = calls[i].status

\* a step never changes a handle, a request already made, the inputs of a
\* call, or more than one call
NothingShared ==
    /\ \A c \in 1..Len(clients) : clients'[c] = clients[c]
    /\ \A n \in 1..Len(wire) : wire'[n] = wire[n]
    /\ \A i \in 1..Len(calls) :
         /\ calls'[i].client = calls[i].client
         /\ calls'[i].props = calls[i].props
         /\ calls[i].pc \in {"resolved", "rejected"} => calls'[i] = calls[i]
         /\ \A j \in 1..Len(calls) :
              (i # j /\ calls'[i] # calls[i]) => calls'[j] = calls[j]

\* C12: for calls sharing a client handle with interleaved round trips, the
\* handle's key and sandbox flag never change, and each call's request and
\* result are those of the call run alone: it receives the response of its
\* own request and nothing built for one call is visible to another.
C12_NoInterference == [](CallsIsolated) /\ [][NothingShared]_vars

\* two calls on one handle, the second answered while the first is in flight
C12_Witness ==
    /\ Len(calls) = 2
    /\ calls[1].client = calls[2].client
    /\ calls[1].props # calls[2].props
    /\ calls[1].pc = "fetching"
    /\ calls[2].pc = "resolved"
    /\ calls[2].result = [call |-> 2, kind |-> "json", status |-> 200]

\* C13: prepareQuery leaves its input unchanged: the query object, its
\* arrays and its include object keep their keys, values and element order
\* over every call, so a second call on the same object returns the same
\* string.
C13_InputUnchanged ==
    [][/\ query' = query
       /\ qpc = "returned" => (qpc' = "again" /\ qresult' = qresult /\ appended' = appended)]_vars

\* a second call returned on an object with an array holding undefined
\* and an include object
C13_Witness ==
    /\ qpc = "again"
    /\ QueryProps = <<Prop(S_a, Arr(<<Str(S_a), Undefined, Str(S_b)>>)),
                      Prop(IncludeKey,
                           Obj(<<Prop(S_a, Bool(TRUE)), Prop(S_b, Bool(FALSE)),
                                 Prop(S_c, Bool(TRUE))>>))>>
    /\ qresult = <<"?", "a", "=", "a", "%", "2", "C", "b", "&",
                   "i", "n", "c", "l", "u", "d", "e", "=", "a", "%", "2", "C", "c">>

\* a value the callback handles by its last statement: not undefined, not
\* an array, not an object under the key include, not an operator string
IsPlainEntry(e) ==
    /\ e.v.t \notin {"undefined", "arr"}
    /\ ~(e.k = IncludeKey /\ e.v.t = "obj")
    /\ ~IsOperatorValue(e.v)

\* C14: for every entry whose value is a number, a boolean, another string,
\* null, or an object under a key other than include, prepareQuery returns
\* normally and emits exactly one parameter named key with the value's
\* toString() as value.
C14_PlainToString ==
    qpc # "ready" =>
        \A i \in 1..Len(QueryProps) :
            LET e == QueryProps[i]
            IN  IsPlainEntry(e) =>
                    /\ qpc \in {"returned", "again"}
                    /\ ParamsOf(e.k) = <<Param(e.k, ValueToString(e.v))>>

=============================================================================
